---- MODULE Spec2Model ----
(***************************************************************************)
(* State-machine model of streamlit_app.py: the form, the session state    *)
(* (generated_post / editable_post) and the three button handlers          *)
(* (Generate, Publish, Clear) with the LinkedIn call sequence.             *)
(*                                                                         *)
(* Text fields are sequences of characters, MIME types are sequences of    *)
(* tokens (<<"image", "/", "png">>), draft texts are numbered 1..NumTexts. *)
(* One step of the model is one Streamlit script run triggered by one      *)
(* user interaction; `run` records what that script run did.               *)
(***************************************************************************)
EXTENDS Integers, Sequences, FiniteSets, TLC

VARIABLES
    project_title,   \* st.text_input("Project Title")
    tech1,           \* st.text_input("Technology 1")
    tech2,           \* st.text_input("Technology 2")
    tech3,           \* st.text_input("Technology 3")
    tech4,           \* st.text_input("Technology 4 (Optional)")
    uploaded_file,   \* the file uploader's value (None or a file with a MIME type)
    session_state,   \* st.session_state: a function from the keys present to texts
    run,             \* what the last script run did (calls, notices, bodies, exception)
    since            \* history: "start", "cleared" or "generated"

vars == <<project_title, tech1, tech2, tech3, tech4, uploaded_file,
          session_state, run, since>>

-----------------------------------------------------------------------------
(* Bounds and input sets *)

\* Number of distinct draft texts (generated or typed into the text area).
NumTexts == 2

Texts == 1..NumTexts

\* Python's None.
None == "<None>"

TitleValues == {<<>>, <<"T">>}

\* Technology 1 may also be whitespace only.
TechValues == {<<>>, <<" ">>, <<"R">>}

MoreTechValues == {<<>>, <<"N">>}

NoFile == [present |-> FALSE, type |-> <<>>]

File(mime) == [present |-> TRUE, type |-> mime]

\* MIME types a browser can declare for an accepted file extension.
MimeTypes == {<<"image", "/", "png">>,
              <<"video", "/", "mp4">>,
              <<"application", "/", "octet-stream">>}

FileValues == {NoFile} \cup {File(m) : m \in MimeTypes}

\* A response of an HTTP call: conn = FALSE is a transport failure
\* (requests raises before any response object exists).
Resp(status) == [conn |-> TRUE, status |-> status]

NoResp == [conn |-> FALSE, status |-> 0]

\* userinfo responses: sub is the "sub" field of the JSON body (None when absent).
IdentityResponses ==
    {[conn |-> TRUE, status |-> 200, sub |-> "u1"],
     [conn |-> TRUE, status |-> 200, sub |-> None],
     [conn |-> TRUE, status |-> 401, sub |-> None],
     [conn |-> TRUE, status |-> 403, sub |-> None],
     [conn |-> TRUE, status |-> 500, sub |-> None],
     [conn |-> FALSE, status |-> 0, sub |-> None]}

\* registerUpload responses: wellformed = the JSON carries value.uploadMechanism
\* ...uploadUrl and value.asset.
RegisterResponses ==
    {[conn |-> TRUE, status |-> 200, wellformed |-> TRUE, asset |-> "urn:li:digitalmediaAsset:A1"],
     [conn |-> TRUE, status |-> 200, wellformed |-> FALSE, asset |-> None],
     [conn |-> TRUE, status |-> 401, wellformed |-> FALSE, asset |-> None],
     [conn |-> TRUE, status |-> 500, wellformed |-> FALSE, asset |-> None],
     [conn |-> FALSE, status |-> 0, wellformed |-> FALSE, asset |-> None]}

UploadResponses == {Resp(201), Resp(500), NoResp}

PostResponses == {Resp(201), Resp(401), Resp(403), Resp(500), NoResp}

\* model.generate_content: a text, or an exception (network/quota/model).
GenResponses == [ok : {TRUE}, text : Texts] \cup {[ok |-> FALSE, text |-> 0]}

\* Placeholders for a call that was not issued in a run (status -1).
NotCalled == [conn |-> FALSE, status |-> -1]

NotCalledIdentity == [conn |-> FALSE, status |-> -1, sub |-> None]

NotCalledRegister == [conn |-> FALSE, status |-> -1, wellformed |-> FALSE, asset |-> None]

NotCalledGen == [ok |-> FALSE, text |-> -1]

-----------------------------------------------------------------------------
(* Python helpers *)

\* Truth value of a str-or-None (`if user_id:`, `if media_urn:`).
Truthy(x) == x # None /\ x # ""

IsSpace(c) == c = " "

RECURSIVE LStrip(_)
LStrip(s) == IF s # <<>> /\ IsSpace(Head(s)) THEN LStrip(Tail(s)) ELSE s

RECURSIVE RStrip(_)
RStrip(s) ==
    IF s # <<>> /\ IsSpace(s[Len(s)]) THEN RStrip(SubSeq(s, 1, Len(s) - 1)) ELSE s

\* str.strip()
Strip(s) == RStrip(LStrip(s))

\* str.startswith(prefix)
StartsWith(s, prefix) ==
    Len(s) >= Len(prefix) /\ SubSeq(s, 1, Len(prefix)) = prefix

\* Response.raise_for_status(): raises HTTPError for 4xx and 5xx.
RaisesForStatus(status) == status >= 400 /\ status < 600

\* str(e) of the HTTPError raised for a status.
StrHTTPError(status) ==
    CASE status = 401 -> "401 Client Error: Unauthorized"
      [] status = 403 -> "403 Client Error: Forbidden"
      [] status >= 500 -> "5xx Server Error"
      [] OTHER -> "4xx Client Error"

\* A notice shown by st.error / st.warning / st.info / st.success; detail is
\* the interpolated value of the message, when it has one that matters.
NoticeD(level, msg, detail) == [level |-> level, msg |-> msg, detail |-> detail]

Notice(level, msg) == NoticeD(level, msg, "")

\* [tech for tech in fields if tech.strip()]
RECURSIVE NonBlank(_)
NonBlank(fields) ==
    IF fields = <<>> THEN <<>>
    ELSE IF Strip(Head(fields)) # <<>>
         THEN <<Head(fields)>> \o NonBlank(Tail(fields))
         ELSE NonBlank(Tail(fields))

-----------------------------------------------------------------------------
(* LinkedIn API functions *)

\* get_user_urn(token): GET /v2/userinfo.  The request is always issued.
\* A transport failure raises inside requests.get, before `response` is
\* bound, so the handler's `response.status_code` raises UnboundLocalError,
\* which is not a RequestException and leaves the function.
get_user_urn(resp) ==
    IF ~resp.conn
    THEN [user_id |-> None, user_name |-> None,
          notices |-> <<Notice("error", "Error fetching user info: {e}")>>,
          raised |-> "UnboundLocalError"]
    ELSE IF RaisesForStatus(resp.status)
    THEN [user_id |-> None, user_name |-> None,
          notices |-> <<Notice("error", "Error fetching user info: {e}")>> \o
                      (IF resp.status = 401
                       THEN <<Notice("error", "LinkedIn token expired or invalid. Please update your token.")>>
                       ELSE <<>>),
          raised |-> "none"]
    ELSE [user_id |-> resp.sub, user_name |-> "name",
          notices |-> <<>>, raised |-> "none"]

\* The media category upload_media_to_linkedin derives from the MIME type.
UploadMediaCategory(file_type) ==
    IF StartsWith(file_type, <<"image">>) THEN "IMAGE" ELSE "VIDEO"

\* Mutant of upload_media_to_linkedin: the binary upload's response is not
\* checked (no upload_response.raise_for_status(), transport error swallowed).
upload_media_unchecked(file_type, reg, up) ==
    LET registered == reg.conn /\ ~RaisesForStatus(reg.status) /\ reg.wellformed
    IN [media_urn |-> IF registered THEN reg.asset ELSE None,
        notices |-> IF registered THEN <<>>
                    ELSE <<Notice("error", "Error uploading media: {e}")>>,
        registers |-> <<UploadMediaCategory(file_type)>>,
        calls |-> IF registered THEN <<"registerUpload", "upload">>
                  ELSE <<"registerUpload">>]

\* upload_media_to_linkedin(token, author_urn, file_content, file_type):
\* register the upload, then POST the bytes.  Every exception is caught.
upload_media_to_linkedin(file_type, reg, up) ==
    LET media_category == UploadMediaCategory(file_type)
        failed == [media_urn |-> None,
                   notices |-> <<Notice("error", "Error uploading media: {e}")>>]
        registered == reg.conn /\ ~RaisesForStatus(reg.status) /\ reg.wellformed
        uploaded == up.conn /\ ~RaisesForStatus(up.status)
        res == IF registered /\ uploaded
               THEN [media_urn |-> reg.asset, notices |-> <<>>]
               ELSE failed
    IN [media_urn |-> res.media_urn,
        notices |-> res.notices,
        registers |-> <<media_category>>,
        calls |-> IF registered THEN <<"registerUpload", "upload">>
                  ELSE <<"registerUpload">>]

\* Mutant of PostErrorMessage: no status-specific message.
PostErrorMessageRaw(status) == StrHTTPError(status)

\* error_msg of create_linkedin_post_with_media for an HTTPError.
PostErrorMessage(status) ==
    IF status = 401 THEN "LinkedIn token expired or invalid"
    ELSE IF status = 403 THEN "Insufficient permissions. Check your LinkedIn app scopes"
    ELSE StrHTTPError(status)

\* The post_data of create_linkedin_post_with_media.  media = <<>> stands
\* for a body without the "media" key.
PostData(author_urn, text, media_urn, media_type) ==
    [author |-> author_urn,
     lifecycleState |-> "PUBLISHED",
     text |-> text,
     shareMediaCategory |-> IF ~Truthy(media_urn) THEN "NONE" ELSE media_type,
     media |-> IF Truthy(media_urn)
               THEN <<[status |-> "READY",
                       description |-> "Project showcase",
                       media |-> media_urn,
                       title |-> IF media_type = "VIDEO" THEN "Project Video"
                                 ELSE "Project Image"]>>
               ELSE <<>>,
     visibility |-> "PUBLIC"]

\* create_linkedin_post_with_media(author_urn, text, token, media_urn, media_type):
\* POST /v2/ugcPosts.  As in get_user_urn, a transport failure leaves
\* `response` unbound and the except block raises UnboundLocalError.
create_linkedin_post_with_media(author_urn, text, media_urn, media_type, resp) ==
    LET post_data == PostData(author_urn, text, media_urn, media_type)
    IN IF ~resp.conn
       THEN [post_data |-> post_data, success |-> FALSE, result |-> None,
             raised |-> "UnboundLocalError"]
       ELSE IF RaisesForStatus(resp.status)
       THEN [post_data |-> post_data, success |-> FALSE,
             result |-> PostErrorMessage(resp.status), raised |-> "none"]
       ELSE [post_data |-> post_data, success |-> TRUE,
             result |-> "response.json()", raised |-> "none"]

-----------------------------------------------------------------------------
(* The script run *)

\* A script run that issued no call and showed no notice from a handler.
QuietRun(action, ss) ==
    [action |-> action, before |-> ss,
     resp |-> [gen |-> NotCalledGen, identity |-> NotCalledIdentity,
               register |-> NotCalledRegister, upload |-> NotCalled,
               post |-> NotCalled],
     calls |-> <<>>, notices |-> <<>>, genCalls |-> <<>>, registers |-> <<>>,
     posts |-> <<>>, raised |-> "none"]

\* Mutant of GenerateRejected: only the title is required.
GenerateRejectedTitleOnly(title, t1) == title = <<>>

\* `if not project_title or not tech1:` of the Generate handler.
GenerateRejected(title, t1) == title = <<>> \/ t1 = <<>>

\* The Generate button handler: what the run does.
GeneratePost(ss, title, t1, t2, t3, t4, gen) ==
    IF GenerateRejected(title, t1)
    THEN [QuietRun("generate", ss) EXCEPT
            !.notices = <<Notice("error", "Please fill in at least the project title and first technology!")>>]
    ELSE LET technologies == NonBlank(<<t1, t2, t3, t4>>)
             base == [QuietRun("generate", ss) EXCEPT
                        !.resp.gen = gen,
                        !.calls = <<"generate_content">>,
                        !.genCalls = <<[project_title |-> title,
                                        technologies |-> technologies]>>]
         IN IF gen.ok
            THEN [base EXCEPT !.notices = <<Notice("success", "Post generated successfully!")>>]
            ELSE [base EXCEPT !.notices =
                    <<Notice("error", "Error generating post: {e}"),
                      Notice("info", "Try using a different model or check your API quota")>>]

\* Mutant of GenerateStore: the response text is stored even when the call failed.
GenerateStoreAlways(ss, title, t1, gen) ==
    IF ~GenerateRejected(title, t1)
    THEN [k \in DOMAIN ss \cup {"generated_post"} |->
            IF k = "generated_post" THEN gen.text ELSE ss[k]]
    ELSE ss

\* The session state the Generate handler leaves (before the text area is drawn).
GenerateStore(ss, title, t1, gen) ==
    IF ~GenerateRejected(title, t1) /\ gen.ok
    THEN [k \in DOMAIN ss \cup {"generated_post"} |->
            IF k = "generated_post" THEN gen.text ELSE ss[k]]
    ELSE ss

\* Mutant of HasUser: the handler goes on without testing user_id.
HasUserAlways(user_id) == TRUE

\* `if user_id:` of the Publish handler.
HasUser(user_id) == Truthy(user_id)

\* linkedin_media_type of the Publish handler.
HandlerMediaType(file, media_urn) ==
    IF file.present /\ Truthy(media_urn)
    THEN IF StartsWith(file.type, <<"image">>) THEN "IMAGE"
         ELSE IF StartsWith(file.type, <<"video">>) THEN "VIDEO"
         ELSE None
    ELSE None

\* The Publish button handler from `if user_id:` on.
PublishAs(base, ss, file, id, reg, up, post) ==
    LET posting == <<Notice("info", "Posting as: {user_name}")>>
        um == upload_media_to_linkedin(file.type, reg, up)
        media_urn == IF file.present THEN um.media_urn ELSE None
        upNotices ==
            IF file.present
            THEN <<Notice("info", "Uploading media...")>> \o um.notices \o
                 (IF Truthy(media_urn)
                  THEN <<Notice("success", "Media uploaded successfully!")>>
                  ELSE <<Notice("warning", "Media upload failed, posting without media...")>>)
            ELSE <<>>
        upCalls == IF file.present THEN um.calls ELSE <<>>
        linkedin_media_type == HandlerMediaType(file, media_urn)
        cp == create_linkedin_post_with_media(id.user_id, ss["editable_post"],
                                              media_urn, linkedin_media_type, post)
        last == IF cp.raised # "none" THEN <<>>
                ELSE IF cp.success
                THEN <<Notice("success", "Post published successfully to LinkedIn!")>>
                ELSE <<NoticeD("error", "Failed to publish post: {result}", cp.result)>>
    IN [base EXCEPT
          !.resp.register = reg,
          !.resp.upload = up,
          !.resp.post = post,
          !.calls = @ \o upCalls \o <<"ugcPosts">>,
          !.registers = IF file.present THEN um.registers ELSE <<>>,
          !.posts = <<cp.post_data>>,
          !.notices = @ \o posting \o upNotices \o last,
          !.raised = cp.raised]

\* The Publish button handler: what the run does.
PublishPost(ss, file, idr, reg, up, post) ==
    IF "generated_post" \notin DOMAIN ss
    THEN [QuietRun("publish", ss) EXCEPT
            !.notices = <<Notice("error", "Please generate a post first!")>>]
    ELSE LET id == get_user_urn(idr)
             base == [QuietRun("publish", ss) EXCEPT
                        !.resp.identity = idr,
                        !.calls = <<"userinfo">>,
                        !.notices = id.notices,
                        !.raised = id.raised]
         IN IF id.raised = "none" /\ HasUser(id.user_id)
            THEN PublishAs(base, ss, file, id, reg, up, post)
            ELSE base

\* Mutant of ClearedState: no key is deleted.
ClearedStateKept(ss) == ss

\* The Clear button handler: del st.session_state[key] for both keys.
ClearedState(ss) ==
    [k \in DOMAIN ss \ {"generated_post", "editable_post"} |-> ss[k]]

\* The draft text area (key "editable_post"), drawn in every run in which
\* generated_post is in the session state.  The widget keeps its value
\* while its `value` argument is unchanged; when a new draft changes the
\* argument, the framework either resets the widget to the new draft or
\* keeps what it held, depending on its version.  Returns the set of
\* session states the run can end in.
TextArea(before, ss) ==
    IF "generated_post" \notin DOMAIN ss THEN {ss}
    ELSE LET with(v) == [k \in DOMAIN ss \cup {"editable_post"} |->
                           IF k = "editable_post" THEN v ELSE ss[k]]
         IN IF "editable_post" \notin DOMAIN ss
            THEN {with(ss["generated_post"])}
            ELSE IF "generated_post" \in DOMAIN before
                    /\ before["generated_post"] = ss["generated_post"]
            THEN {ss}
            ELSE {ss, with(ss["generated_post"])}

-----------------------------------------------------------------------------
(* Initial state and actions *)

EmptyState == [k \in {} |-> 0]

Init ==
    /\ project_title = <<>>
    /\ tech1 = <<>>
    /\ tech2 = <<>>
    /\ tech3 = <<>>
    /\ tech4 = <<>>
    /\ uploaded_file = NoFile
    /\ session_state = EmptyState
    /\ run = QuietRun("init", EmptyState)
    /\ since = "start"

\* A form edit reruns the script: no handler runs, the notices of the
\* previous run are gone.
Rerun ==
    /\ run' = QuietRun("edit", session_state)
    /\ UNCHANGED <<session_state, since>>

SetTitle ==
    \E v \in TitleValues \ {project_title} :
        /\ project_title' = v
        /\ Rerun
        /\ UNCHANGED <<tech1, tech2, tech3, tech4, uploaded_file>>

SetTech1 ==
    \E v \in TechValues \ {tech1} :
        /\ tech1' = v
        /\ Rerun
        /\ UNCHANGED <<project_title, tech2, tech3, tech4, uploaded_file>>

SetTech2 ==
    \E v \in MoreTechValues \ {tech2} :
        /\ tech2' = v
        /\ Rerun
        /\ UNCHANGED <<project_title, tech1, tech3, tech4, uploaded_file>>

SetTech3 ==
    \E v \in MoreTechValues \ {tech3} :
        /\ tech3' = v
        /\ Rerun
        /\ UNCHANGED <<project_title, tech1, tech2, tech4, uploaded_file>>

SetTech4 ==
    \E v \in MoreTechValues \ {tech4} :
        /\ tech4' = v
        /\ Rerun
        /\ UNCHANGED <<project_title, tech1, tech2, tech3, uploaded_file>>

\* The media-type selector and the file uploader it shows.
SetFile ==
    \E f \in FileValues \ {uploaded_file} :
        /\ uploaded_file' = f
        /\ Rerun
        /\ UNCHANGED <<project_title, tech1, tech2, tech3, tech4>>

\* The user types into the draft text area.
EditDraft ==
    /\ "editable_post" \in DOMAIN session_state
    /\ \E t \in Texts \ {session_state["editable_post"]} :
        session_state' = [session_state EXCEPT !["editable_post"] = t]
    /\ run' = QuietRun("edit", session_state)
    /\ UNCHANGED <<project_title, tech1, tech2, tech3, tech4, uploaded_file, since>>

\* Click on "Generate LinkedIn Post".
Generate ==
    \E gen \in GenResponses :
        LET r == GeneratePost(session_state, project_title, tech1, tech2, tech3, tech4, gen)
            stored == GenerateStore(session_state, project_title, tech1, gen)
        IN /\ run' = r
           /\ session_state' \in TextArea(session_state, stored)
           /\ since' = IF r.calls # <<>> /\ r.resp.gen.ok THEN "generated" ELSE since
           /\ UNCHANGED <<project_title, tech1, tech2, tech3, tech4, uploaded_file>>

\* Click on "Publish Post".  A response is drawn only for the calls the
\* handler issues; a call it does not issue has the NotCalled placeholder.
Publish ==
    \E idr \in IF "generated_post" \in DOMAIN session_state
               THEN IdentityResponses ELSE {NotCalledIdentity} :
      LET proceeds == /\ "generated_post" \in DOMAIN session_state
                      /\ get_user_urn(idr).raised = "none"
                      /\ HasUser(get_user_urn(idr).user_id)
      IN \E reg \in IF proceeds /\ uploaded_file.present
                    THEN RegisterResponses ELSE {NotCalledRegister} :
         \E up \in IF Len(upload_media_to_linkedin(uploaded_file.type, reg, NoResp).calls) = 2
                   THEN UploadResponses ELSE {NotCalled} :
         \E post \in IF proceeds THEN PostResponses ELSE {NotCalled} :
            /\ run' = PublishPost(session_state, uploaded_file, idr, reg, up, post)
            /\ UNCHANGED <<project_title, tech1, tech2, tech3, tech4, uploaded_file,
                           session_state, since>>

\* Click on "Clear & Start Over".
Clear ==
    /\ session_state' = ClearedState(session_state)
    /\ run' = QuietRun("clear", session_state)
    /\ since' = "cleared"
    /\ UNCHANGED <<project_title, tech1, tech2, tech3, tech4, uploaded_file>>

Next ==
    \/ SetTitle
    \/ SetTech1
    \/ SetTech2
    \/ SetTech3
    \/ SetTech4
    \/ SetFile
    \/ EditDraft
    \/ Generate
    \/ Publish
    \/ Clear

Spec == Init /\ [][Next]_vars

-----------------------------------------------------------------------------
(* Vocabulary of the properties *)

Issued(api) == \E i \in 1..Len(run.calls) : run.calls[i] = api

Count(api) == Cardinality({i \in 1..Len(run.calls) : run.calls[i] = api})

HasNotice(n) == \E i \in 1..Len(run.notices) : run.notices[i] = n

LastNotice == run.notices[Len(run.notices)]

\* A call that was issued and failed: no response at all, or a 4xx/5xx one.
Failed(r) == r.status >= 0 /\ (~r.conn \/ RaisesForStatus(r.status))

Succeeded(r) == r.status >= 0 /\ r.conn /\ ~RaisesForStatus(r.status)

RegisterFailed == Failed(run.resp.register)
                    \/ (Succeeded(run.resp.register) /\ ~run.resp.register.wellformed)

RegisterSucceeded == Succeeded(run.resp.register) /\ run.resp.register.wellformed

IdentityGaveUser == Succeeded(run.resp.identity) /\ Truthy(run.resp.identity.sub)

\* The generated_post entry of a session state, as a sequence of 0 or 1 texts.
Draft(ss) == IF "generated_post" \in DOMAIN ss THEN <<ss["generated_post"]>> ELSE <<>>

AuthNotice == Notice("error", "LinkedIn token expired or invalid. Please update your token.")

GenerateFirstNotice == Notice("error", "Please generate a post first!")

PublishFailedNotice(detail) == NoticeD("error", "Failed to publish post: {result}", detail)

PublishedNotice == Notice("success", "Post published successfully to LinkedIn!")

TypeOK ==
    /\ project_title \in TitleValues
    /\ tech1 \in TechValues
    /\ {tech2, tech3, tech4} \subseteq MoreTechValues
    /\ uploaded_file \in FileValues
    /\ DOMAIN session_state \in {{}, {"generated_post", "editable_post"}}
    /\ \A k \in DOMAIN session_state : session_state[k] \in Texts
    /\ since \in {"start", "cleared", "generated"}

-----------------------------------------------------------------------------
(* Properties *)

\* C1: in a Publish run whose identity call ends with a 4xx/5xx response
\* (401 in particular) no register-upload, binary-upload or post-creation
\* call is issued and the run ends with an error notice (the token notice
\* for 401); a post-creation call is issued only after the identity call of
\* the same run returned a user id.
C1_IdentityFailureStopsPublish ==
    run.action = "publish" =>
        /\ (run.resp.identity.conn /\ RaisesForStatus(run.resp.identity.status)) =>
              /\ ~Issued("registerUpload")
              /\ ~Issued("upload")
              /\ ~Issued("ugcPosts")
              /\ run.posts = <<>>
              /\ run.notices # <<>>
              /\ LastNotice.level = "error"
              /\ ~HasNotice(PublishedNotice)
              /\ (run.resp.identity.status = 401 => LastNotice = AuthNotice)
        /\ Issued("ugcPosts") =>
              /\ run.calls[1] = "userinfo"
              /\ run.calls[Len(run.calls)] = "ugcPosts"
              /\ IdentityGaveUser

C1_Witness ==
    /\ run.action = "publish"
    /\ run.resp.identity.status = 401
    /\ uploaded_file.present
    /\ run.calls = <<"userinfo">>

\* C2: in a Publish run with an attached file whose identity call gave a
\* user id and whose register-upload or binary-upload call failed, the run
\* is not aborted: the warning is shown, exactly one post-creation request
\* is sent, and its body has no media block and share category "NONE".
C2_UploadFailureDegrades ==
    (/\ run.action = "publish"
     /\ uploaded_file.present
     /\ IdentityGaveUser
     /\ (RegisterFailed \/ Failed(run.resp.upload))) =>
        /\ HasNotice(Notice("warning", "Media upload failed, posting without media..."))
        /\ Count("ugcPosts") = 1
        /\ Len(run.posts) = 1
        /\ run.posts[1].media = <<>>
        /\ run.posts[1].shareMediaCategory = "NONE"

C2_Witness ==
    /\ run.action = "publish"
    /\ uploaded_file.present
    /\ RegisterSucceeded
    /\ Failed(run.resp.upload)
    /\ Len(run.posts) = 1

\* C3: in a Publish run whose media upload succeeded, the post body's share
\* category is the attachment's type (IMAGE or VIDEO, as derived from the
\* MIME type), the body has a READY media block referencing the registered
\* asset, and the title is "Project Image" / "Project Video" accordingly.
C3_ShareCategoryIsAttachmentType ==
    (/\ run.action = "publish"
     /\ RegisterSucceeded
     /\ Succeeded(run.resp.upload)) =>
        /\ Len(run.posts) = 1
        /\ run.posts[1].shareMediaCategory \in {"IMAGE", "VIDEO"}
        /\ run.posts[1].shareMediaCategory = UploadMediaCategory(uploaded_file.type)
        /\ Len(run.posts[1].media) = 1
        /\ run.posts[1].media[1].status = "READY"
        /\ run.posts[1].media[1].media = run.resp.register.asset
        /\ run.posts[1].media[1].title =
              (IF run.posts[1].shareMediaCategory = "VIDEO" THEN "Project Video"
               ELSE "Project Image")
        /\ (UploadMediaCategory(uploaded_file.type) = "VIDEO"
              => run.posts[1].media[1].title = "Project Video")

\* C4: a Publish run that passes the draft-present check ends, whatever
\* each external call returns, with no exception leaving the handler and
\* with a success or failure notice as its last notice.
C4_PublishAlwaysCompletes ==
    (run.action = "publish" /\ run.calls # <<>>) =>
        /\ run.raised = "none"
        /\ run.notices # <<>>
        /\ LastNotice.level \in {"success", "error"}

C6_EmptyInputRejected ==
    (run.action = "generate" /\ (project_title = <<>> \/ tech1 = <<>>)) =>
        /\ run.notices = <<Notice("error", "Please fill in at least the project title and first technology!")>>
        /\ run.calls = <<>>
        /\ run.genCalls = <<>>
        /\ session_state = run.before

C6_Witness ==
    /\ run.action = "generate"
    /\ project_title # <<>>
    /\ tech1 = <<>>
    /\ tech2 # <<>>
    /\ "generated_post" \in DOMAIN run.before
    /\ run.calls = <<>>

\* C7: after a Clear and until a Generate succeeds, every Publish run is
\* rejected with the generate-a-post-first error and issues no LinkedIn call.
C7_PublishAfterClearRejected ==
    (run.action = "publish" /\ since = "cleared") =>
        /\ run.notices = <<GenerateFirstNotice>>
        /\ run.calls = <<>>
        /\ run.registers = <<>>
        /\ run.posts = <<>>

C7_Witness ==
    /\ run.action = "publish"
    /\ since = "cleared"
    /\ uploaded_file.present
    /\ project_title # <<>>
    /\ tech1 # <<>>
    /\ run.notices = <<GenerateFirstNotice>>

\* C8: whenever a text-generation call or a post-creation call is issued,
\* the current project title is non-empty and the technologies list built
\* from the four technology fields is not empty.
C8_CallsNeedTitleAndTechnology ==
    (Issued("generate_content") \/ Issued("ugcPosts")) =>
        /\ project_title # <<>>
        /\ NonBlank(<<tech1, tech2, tech3, tech4>>) # <<>>

\* C9: generated_post is stored exactly when a Generate has succeeded since
\* the last Clear (or the session start); a rejected Generate, a Generate
\* whose call fails and every Publish leave it unchanged; only Clear
\* removes it.
C9_DraftLifecycle ==
    /\ ("generated_post" \in DOMAIN session_state) <=> (since = "generated")
    /\ (run.action = "generate" /\ ~run.resp.gen.ok) =>
          Draft(session_state) = Draft(run.before)
    /\ run.action = "publish" => Draft(session_state) = Draft(run.before)
    /\ (Draft(run.before) # <<>> /\ Draft(session_state) = <<>>) =>
          run.action = "clear"
    /\ run.action = "clear" => Draft(session_state) = <<>>

C9_Witness ==
    /\ run.action = "generate"
    /\ Issued("generate_content")
    /\ ~run.resp.gen.ok
    /\ Draft(run.before) # <<>>
    /\ Draft(session_state) = Draft(run.before)

\* C10: for every post-creation request of a Publish run, whatever the
\* file's MIME type: the share category is "NONE", "IMAGE" or "VIDEO"; the
\* body has a media block iff the category is not "NONE"; and with a media
\* block the category is the one the register-upload request used.
C10_ShareCategoryConsistent ==
    (run.action = "publish" /\ run.posts # <<>>) =>
        /\ run.posts[1].shareMediaCategory \in {"NONE", "IMAGE", "VIDEO"}
        /\ (run.posts[1].media # <<>>) <=> (run.posts[1].shareMediaCategory # "NONE")
        /\ run.posts[1].media # <<>> =>
              /\ run.registers # <<>>
              /\ run.posts[1].shareMediaCategory = run.registers[1]

====
